---- MODULE Spec2Model ----
(***************************************************************************)
(* Model of the snake game of snake.c: the game loop of main(), the input  *)
(* handler, snake movement with tunnelling, growth, food placement and     *)
(* self-collision detection.                                               *)
(***************************************************************************)
EXTENDS Integers, Sequences, FiniteSets, TLC

(* ------------------------- program constants --------------------------- *)
WIDTH == 30
HEIGHT == 20
INITIAL_SIZE == 3

UP == 0
RIGHT == 1
DOWN == 2
LEFT == 3

(* ------------------------------ bounds --------------------------------- *)
\* number of moveSnake calls explored from the initial state
MaxMoves == 5
\* number of moveSnake calls explored from each state of InitWide
WideMoves == 1
\* InitWide places the head at most this many cells away from the border ring
WideBand == 1

\* number of moveSnake calls explored from InitFull
FullMoves == 2

\* values returned by rand() in placeFood
RandValues == {239, 264, 740}

\* values returned by getch(); "ERR" is the timeout without a key
Keys == {"ERR", "p", "P", "w", "W", "KEY_UP", "d", "D", "KEY_RIGHT",
         "s", "S", "KEY_DOWN", "a", "A", "KEY_LEFT", "q", "Q", "x"}

Directions == {UP, RIGHT, DOWN, LEFT}

\* snake, food, gameOver, gamePaused: the variables of main(); pc: the position in
\* the loop of main(); key: the last value returned by getch(); shown: the scores
\* handed to endGame.  History: lastDir is the direction the last moveSnake call
\* used, tailBefore the position of the last segment before that call, moves the
\* number of moveSnake calls, eaten the number of ticks in which food was eaten,
\* placeFailed whether some placeFood call found no empty cell.
VARIABLES snake, food, gameOver, gamePaused, pc, key, lastDir, moves, eaten, shown,
          tailBefore, placeFailed

vars == <<snake, food, gameOver, gamePaused, pc, key, lastDir, moves, eaten, shown,
          tailBefore, placeFailed>>

(* ------------------------------ helpers -------------------------------- *)
Point(px, py) == [x |-> px, y |-> py]

\* the snake's segments; C index i is index i+1 here
HeadOf(s) == s.body[1]

InteriorX == 1..(WIDTH - 2)
InteriorY == 1..(HEIGHT - 2)

IsInterior(p) == p.x \in InteriorX /\ p.y \in InteriorY

Cells(s) == {s.body[i] : i \in 1..s.size}

(* --------------------------- initializeGame ---------------------------- *)
\* variant: the body is laid out to the right of the head
InitialSnake_reversed ==
    [body |-> [i \in 1..INITIAL_SIZE |-> Point((WIDTH \div 2) + (i - 1), HEIGHT \div 2)],
     size |-> INITIAL_SIZE,
     direction |-> RIGHT]

InitialSnake ==
    [body |-> [i \in 1..INITIAL_SIZE |-> Point((WIDTH \div 2) - (i - 1), HEIGHT \div 2)],
     size |-> INITIAL_SIZE,
     direction |-> RIGHT]

(* ------------------------------ placeFood ------------------------------ *)
\* the interior cells in the order of the two nested loops (row by row)
InteriorSeq ==
    [k \in 1..((WIDTH - 2) * (HEIGHT - 2)) |->
        Point(((k - 1) % (WIDTH - 2)) + 1, ((k - 1) \div (WIDTH - 2)) + 1)]

\* variant: the scan for a snake segment starts after the head
IsEmptyCell_skipsHead(s, c) == \A i \in 2..s.size : ~(s.body[i].x = c.x /\ s.body[i].y = c.y)

IsEmptyCell(s, c) == \A i \in 1..s.size : ~(s.body[i].x = c.x /\ s.body[i].y = c.y)

\* variant: the scan for snake segments is left out, every interior cell counts as empty
EmptyCells_ignoresSnake(s) == InteriorSeq

EmptyCells(s) == SelectSeq(InteriorSeq, LAMBDA c : IsEmptyCell(s, c))

RandomIndex(r, emptyCount) == r % emptyCount

\* variant: with no empty cell the food falls back to the first interior cell
placeFood_fallback(s, f, r) ==
    LET empty == EmptyCells(s)
        emptyCount == Len(empty)
    IN  IF emptyCount > 0 THEN empty[RandomIndex(r, emptyCount) + 1] ELSE InteriorSeq[1]

placeFood(s, f, r) ==
    LET empty == EmptyCells(s)
        emptyCount == Len(empty)
    IN  IF emptyCount > 0 THEN empty[RandomIndex(r, emptyCount) + 1] ELSE f

(* ------------------------------ moveSnake ------------------------------ *)
StepX(hx, d) == IF d = RIGHT THEN hx + 1 ELSE IF d = LEFT THEN hx - 1 ELSE hx

StepY(hy, d) == IF d = UP THEN hy - 1 ELSE IF d = DOWN THEN hy + 1 ELSE hy

\* variant: the left/right remap lands on the border column
WrapX_ontoBorder(hx) == IF hx <= 0 THEN WIDTH - 1 ELSE IF hx >= WIDTH - 1 THEN 0 ELSE hx

WrapX(hx) == IF hx <= 0 THEN WIDTH - 2 ELSE IF hx >= WIDTH - 1 THEN 1 ELSE hx

\* variant: the comparisons are strict, so row 0 and row HEIGHT-1 are not remapped
WrapY_strict(hy) == IF hy < 0 THEN HEIGHT - 2 ELSE IF hy > HEIGHT - 1 THEN 1 ELSE hy

WrapY(hy) == IF hy <= 0 THEN HEIGHT - 2 ELSE IF hy >= HEIGHT - 1 THEN 1 ELSE hy

\* variant: the shift loop runs from the head to the tail and smears the old head
ShiftBody_forward(s, newHead) == [i \in 1..s.size |-> IF i = 1 THEN newHead ELSE s.body[1]]

\* variant: the shift loop stops one index early and leaves the segment behind the head
ShiftBody_skipsNeck(s, newHead) ==
    [i \in 1..s.size |-> IF i = 1 THEN newHead ELSE IF i = 2 THEN s.body[2] ELSE s.body[i - 1]]

ShiftBody(s, newHead) == [i \in 1..s.size |-> IF i = 1 THEN newHead ELSE s.body[i - 1]]

moveSnake(s) ==
    LET headX == WrapX(StepX(s.body[1].x, s.direction))
        headY == WrapY(StepY(s.body[1].y, s.direction))
    IN  [s EXCEPT !.body = ShiftBody(s, Point(headX, headY))]

(* ---------------------------- checkCollision --------------------------- *)
\* the loop over the C indices i = 1 .. size-1 returns true at the first segment
\* that lies on the head's cell and false when it finds none
SegmentOnHead(s, i) == s.body[1].x = s.body[i + 1].x /\ s.body[1].y = s.body[i + 1].y

\* variant: the loop starts at the head itself
checkCollision_fromHead(s) == \E i \in 0..(s.size - 1) : SegmentOnHead(s, i)

\* variant: the loop stops before the last segment
checkCollision_skipsTail(s) == \E i \in 1..(s.size - 2) : SegmentOnHead(s, i)

checkCollision(s) == \E i \in 1..(s.size - 1) : SegmentOnHead(s, i)

(* -------------------------------- eatFood ------------------------------ *)
\* variant: only the column is compared
HeadOnFood_xOnly(s, f) == s.body[1].x = f.x

\* variant: only the row is compared
HeadOnFood_yOnly(s, f) == s.body[1].y = f.y

HeadOnFood(s, f) == s.body[1].x = f.x /\ s.body[1].y = f.y

\* variant: the segment before the last one is duplicated
Grow_offByOne(s) == [s EXCEPT !.body = Append(s.body, s.body[s.size - 1]), !.size = s.size + 1]

Grow(s) == [s EXCEPT !.body = Append(s.body, s.body[s.size]), !.size = s.size + 1]

(* ------------------------------ handleInput ---------------------------- *)
\* variant: a request for the opposite direction is not rejected
NewDirection_reverses(k, d, paused) ==
    IF k \in {"w", "KEY_UP"} THEN (IF ~paused THEN UP ELSE d)
    ELSE IF k \in {"d", "KEY_RIGHT"} THEN (IF ~paused THEN RIGHT ELSE d)
    ELSE IF k \in {"s", "KEY_DOWN"} THEN (IF ~paused THEN DOWN ELSE d)
    ELSE IF k \in {"a", "KEY_LEFT"} THEN (IF ~paused THEN LEFT ELSE d)
    ELSE d

\* variant: movement keys are processed while the game is paused
NewDirection_whilePaused(k, d, paused) ==
    IF k \in {"w", "KEY_UP"} THEN (IF d # DOWN THEN UP ELSE d)
    ELSE IF k \in {"d", "KEY_RIGHT"} THEN (IF d # LEFT THEN RIGHT ELSE d)
    ELSE IF k \in {"s", "KEY_DOWN"} THEN (IF d # UP THEN DOWN ELSE d)
    ELSE IF k \in {"a", "KEY_LEFT"} THEN (IF d # RIGHT THEN LEFT ELSE d)
    ELSE d

NewDirection(k, d, paused) ==
    IF k \in {"w", "KEY_UP"} THEN (IF ~paused /\ d # DOWN THEN UP ELSE d)
    ELSE IF k \in {"d", "KEY_RIGHT"} THEN (IF ~paused /\ d # LEFT THEN RIGHT ELSE d)
    ELSE IF k \in {"s", "KEY_DOWN"} THEN (IF ~paused /\ d # UP THEN DOWN ELSE d)
    ELSE IF k \in {"a", "KEY_LEFT"} THEN (IF ~paused /\ d # RIGHT THEN LEFT ELSE d)
    ELSE d

\* variant: any key resumes a paused game
NewPaused_anyKey(k, paused) ==
    IF k \in {"p", "P"} THEN ~paused ELSE IF k # "ERR" THEN FALSE ELSE paused

NewPaused(k, paused) == IF k \in {"p", "P"} THEN ~paused ELSE paused

\* variant: a key without a case label ends the game
NewGameOver_default(k, over) ==
    IF k \in {"q", "Q"} THEN TRUE
    ELSE IF k \in {"ERR", "p", "P", "w", "KEY_UP", "d", "KEY_RIGHT", "s", "KEY_DOWN", "a", "KEY_LEFT"}
    THEN over ELSE TRUE

NewGameOver(k, over) == IF k \in {"q", "Q"} THEN TRUE ELSE over

(* -------------------------------- score -------------------------------- *)
\* variant: the size itself is handed over
Score_rawSize(s) == s.size

\* the argument of endGame and the score drawGame prints
Score(s) == s.size - INITIAL_SIZE

(* ------------------------------- the game ------------------------------ *)
Init ==
    /\ snake = InitialSnake
    /\ \E r \in RandValues : food = placeFood(InitialSnake, Point(0, 0), r)
    /\ gameOver = FALSE
    /\ gamePaused = FALSE
    /\ pc = "loop"
    /\ key = "ERR"
    /\ lastDir = -1
    /\ moves = 0
    /\ eaten = 0
    /\ shown = <<>>
    /\ tailBefore = Point(0, 0)
    /\ placeFailed = FALSE

\* while (!gameOver) { drawGame(...);
DrawGame ==
    /\ pc = "loop"
    /\ ~gameOver
    /\ pc' = "input"
    /\ UNCHANGED <<snake, food, gameOver, gamePaused, key, lastDir, moves, eaten, shown,
                   tailBefore, placeFailed>>

\* variant: the body of the loop lacks the test of gameOver before moveSnake
HandleInput_noOverTest(k) ==
    /\ pc = "input"
    /\ key' = k
    /\ snake' = [snake EXCEPT !.direction = NewDirection(k, snake.direction, gamePaused)]
    /\ gamePaused' = NewPaused(k, gamePaused)
    /\ gameOver' = NewGameOver(k, gameOver)
    /\ pc' = IF gamePaused' THEN "loop" ELSE "move"
    /\ UNCHANGED <<food, lastDir, moves, eaten, shown, tailBefore, placeFailed>>

\* handleInput(...); if (gamePaused) continue; if (!gameOver) ...
HandleInput(k) ==
    /\ pc = "input"
    /\ key' = k
    /\ snake' = [snake EXCEPT !.direction = NewDirection(k, snake.direction, gamePaused)]
    /\ gamePaused' = NewPaused(k, gamePaused)
    /\ gameOver' = NewGameOver(k, gameOver)
    /\ pc' = IF gamePaused' \/ gameOver' THEN "loop" ELSE "move"
    /\ UNCHANGED <<food, lastDir, moves, eaten, shown, tailBefore, placeFailed>>

MoveSnake ==
    /\ pc = "move"
    /\ moves < MaxMoves
    /\ snake' = moveSnake(snake)
    /\ lastDir' = snake.direction
    /\ tailBefore' = snake.body[snake.size]
    /\ moves' = moves + 1
    /\ pc' = "eat"
    /\ UNCHANGED <<food, gameOver, gamePaused, key, eaten, shown, placeFailed>>

\* if (eatFood(&snake, &food)) placeFood(snake, &food);
EatFood(r) ==
    /\ pc = "eat"
    /\ IF HeadOnFood(snake, food)
       THEN /\ snake' = Grow(snake)
            /\ food' = placeFood(snake', food, r)
            /\ eaten' = eaten + 1
            /\ placeFailed' = (placeFailed \/ Len(EmptyCells(snake')) = 0)
       ELSE UNCHANGED <<snake, food, eaten, placeFailed>>
    /\ pc' = "collide"
    /\ UNCHANGED <<gameOver, gamePaused, key, lastDir, moves, shown, tailBefore>>

\* if (checkCollision(snake)) gameOver = true;
CheckCollision ==
    /\ pc = "collide"
    /\ gameOver' = (IF checkCollision(snake) THEN TRUE ELSE gameOver)
    /\ pc' = "loop"
    /\ UNCHANGED <<snake, food, gamePaused, key, lastDir, moves, eaten, shown,
                   tailBefore, placeFailed>>

\* the loop condition fails: endGame(snake.size - INITIAL_SIZE); return 0;
EndGame ==
    /\ pc = "loop"
    /\ gameOver
    /\ shown' = Append(shown, Score(snake))
    /\ pc' = "exit"
    /\ UNCHANGED <<snake, food, gameOver, gamePaused, key, lastDir, moves, eaten,
                   tailBefore, placeFailed>>

Next ==
    \/ DrawGame
    \/ \E k \in Keys : HandleInput(k)
    \/ MoveSnake
    \/ \E r \in RandValues : EatFood(r)
    \/ CheckCollision
    \/ EndGame

Spec == Init /\ [][Next]_vars

(* ------------------- states reached later in a game -------------------- *)
\* the coordinate the head had before a moveSnake call in direction d left it at hx / hy
PrevX(hx, d) ==
    IF d = RIGHT THEN (IF hx = 1 THEN WIDTH - 2 ELSE hx - 1)
    ELSE IF d = LEFT THEN (IF hx = WIDTH - 2 THEN 1 ELSE hx + 1)
    ELSE hx

PrevY(hy, d) ==
    IF d = DOWN THEN (IF hy = 1 THEN HEIGHT - 2 ELSE hy - 1)
    ELSE IF d = UP THEN (IF hy = HEIGHT - 2 THEN 1 ELSE hy + 1)
    ELSE hy

PrevPoint(p, d) == Point(PrevX(p.x, d), PrevY(p.y, d))

\* a snake that has not eaten yet and has made its last moves in direction d
StraightSnake(h, d) ==
    [body |-> <<h, PrevPoint(h, d), PrevPoint(PrevPoint(h, d), d)>>,
     size |-> INITIAL_SIZE,
     direction |-> d]

NearRing(p) ==
    \/ p.x <= WideBand
    \/ p.x >= WIDTH - 1 - WideBand
    \/ p.y <= WideBand
    \/ p.y >= HEIGHT - 1 - WideBand

\* the game at the top of the loop with the snake somewhere near the border ring,
\* the first food still uneaten
InitWide ==
    /\ \E hx \in InteriorX, hy \in InteriorY, d \in Directions :
          /\ NearRing(Point(hx, hy))
          /\ snake = StraightSnake(Point(hx, hy), d)
          /\ lastDir = d
    /\ \E r \in RandValues : food = placeFood(InitialSnake, Point(0, 0), r)
    /\ food \notin Cells(snake)
    /\ gameOver = FALSE
    /\ gamePaused = FALSE
    /\ pc = "loop"
    /\ key = "ERR"
    /\ moves = MaxMoves - WideMoves
    /\ eaten = 0
    /\ shown = <<>>
    /\ tailBefore = PrevPoint(snake.body[snake.size], snake.direction)
    /\ placeFailed = FALSE

InitAny == Init \/ InitWide

SpecWide == InitAny /\ [][Next]_vars

(* -------------------- a game about to fill the board ------------------- *)
\* the k-th cell of the path that runs through the interior row by row, odd rows
\* left to right and even rows right to left; from its last cell (1, HEIGHT-2) a
\* move Down tunnels to its first cell (1, 1)
SerpentineCell(k) ==
    LET row == ((k - 1) \div (WIDTH - 2)) + 1
        off == (k - 1) % (WIDTH - 2)
    IN  Point(IF row % 2 = 1 THEN off + 1 ELSE (WIDTH - 2) - off, row)

InteriorCount == (WIDTH - 2) * (HEIGHT - 2)

\* a snake that has followed the path, has eaten in the tick before (its tail is
\* duplicated) and leaves only the last cell of the path free
FullSnake ==
    [body |-> [i \in 1..InteriorCount |->
                  IF i < InteriorCount THEN SerpentineCell(InteriorCount - i)
                  ELSE SerpentineCell(1)],
     size |-> InteriorCount,
     direction |-> LEFT]

\* the top of the loop after that tick: placeFood found a single empty cell
InitFull ==
    /\ snake = FullSnake
    /\ \E r \in RandValues : food = placeFood(FullSnake, Point(0, 0), r)
    /\ gameOver = FALSE
    /\ gamePaused = FALSE
    /\ pc = "loop"
    /\ key = "ERR"
    /\ lastDir = LEFT
    /\ moves = MaxMoves - FullMoves
    /\ eaten = InteriorCount - INITIAL_SIZE
    /\ shown = <<>>
    /\ tailBefore = SerpentineCell(InteriorCount)
    /\ placeFailed = FALSE

SpecFull == (Init \/ InitFull) /\ [][Next]_vars

(* ============================== properties ============================= *)
MoveStep == pc = "move" /\ pc' = "eat"

EatStep == pc = "eat" /\ pc' = "collide"

\* a segment other than the head lies on the head's cell
HeadHitsBody == \E i \in 2..snake.size : snake.body[i] = snake.body[1]

PauseKeys == {"p", "P"}

QuitKeys == {"q", "Q"}

(* ---- C1 ---- *)
C1_AllInterior ==
    \A i \in 1..snake.size :
        /\ snake.body[i].x >= 1 /\ snake.body[i].x <= WIDTH - 2
        /\ snake.body[i].y >= 1 /\ snake.body[i].y <= HEIGHT - 2

C1_WrapStep ==
    MoveStep =>
        /\ (snake.body[1].x = 1 /\ snake.direction = LEFT) => snake'.body[1].x = WIDTH - 2
        /\ (snake.body[1].x = WIDTH - 2 /\ snake.direction = RIGHT) => snake'.body[1].x = 1
        /\ (snake.body[1].y = 1 /\ snake.direction = UP) => snake'.body[1].y = HEIGHT - 2
        /\ (snake.body[1].y = HEIGHT - 2 /\ snake.direction = DOWN) => snake'.body[1].y = 1

\* C1: every snake segment always lies in the interior 1..WIDTH-2 x 1..HEIGHT-2,
\* and a head on an innermost interior boundary cell that moves outward lands on
\* the opposite interior boundary, on both axes.
C1_WrapAroundInvariant == []C1_AllInterior /\ [][C1_WrapStep]_vars

\* the head has just tunnelled through the bottom wall to the top row
C1_Witness ==
    /\ pc = "eat"
    /\ lastDir = DOWN
    /\ snake.body[1].y = 1
    /\ snake.body[2].y = HEIGHT - 2

(* ---- C2 ---- *)
Opposite(d) == (d + 2) % 4

\* the direction a key asks for, -1 for a key that asks for none
Requested(k) ==
    IF k \in {"w", "KEY_UP"} THEN UP
    ELSE IF k \in {"d", "KEY_RIGHT"} THEN RIGHT
    ELSE IF k \in {"s", "KEY_DOWN"} THEN DOWN
    ELSE IF k \in {"a", "KEY_LEFT"} THEN LEFT
    ELSE -1

C2_Step ==
    /\ (MoveStep /\ lastDir \in Directions) => lastDir' # Opposite(lastDir)
    /\ (pc = "input" /\ ~gamePaused /\ Requested(key') \in Directions) =>
          snake'.direction = (IF Requested(key') = Opposite(snake.direction)
                              THEN snake.direction
                              ELSE Requested(key'))

\* C2: the direction used by a moveSnake call is never the exact opposite of the
\* direction used by the previous moveSnake call; handleInput rejects a request
\* for the opposite direction and accepts same-direction and perpendicular ones.
C2_NeverReverses == [][C2_Step]_vars

\* a request for the opposite direction was read and rejected, the snake has
\* moved on in its old direction
C2_Witness ==
    /\ pc = "eat"
    /\ moves >= 2
    /\ key \in {"a", "KEY_LEFT"}
    /\ lastDir = RIGHT
    /\ snake.body[1].x = snake.body[2].x + 1

(* ---- C3 ---- *)
SomeInteriorCellFree ==
    \E cx \in InteriorX, cy \in InteriorY : \A i \in 1..snake.size : snake.body[i] # Point(cx, cy)

FoodOnFreeInteriorCell ==
    /\ food.x >= 1 /\ food.x <= WIDTH - 2
    /\ food.y >= 1 /\ food.y <= HEIGHT - 2
    /\ \A i \in 1..snake.size : snake.body[i] # food

C3_AtStart == (moves = 0 /\ eaten = 0 /\ SomeInteriorCellFree) => FoodOnFreeInteriorCell

C3_AfterEating ==
    (EatStep /\ snake.body[1] = food /\ SomeInteriorCellFree') => FoodOnFreeInteriorCell'

\* C3: whenever placeFood is called (at game start and after every food
\* consumption) and some interior cell is free of snake segments, the food is
\* put on an interior cell that no snake segment occupies, the duplicated tail
\* segment included.
C3_FoodPlacement == []C3_AtStart /\ [][C3_AfterEating]_vars

\* food was eaten, the tail is duplicated and a new food item lies on the board
C3_Witness ==
    /\ pc = "collide"
    /\ eaten = 1
    /\ snake.body[snake.size] = snake.body[snake.size - 1]
    /\ food # snake.body[1]
    /\ food.y = snake.body[1].y

(* ---- C4 ---- *)
C4_Iff == checkCollision(snake) <=> HeadHitsBody

C4_Fresh == moves = 0 => (~checkCollision(snake) /\ (gameOver => key \in QuitKeys))

C4_Step == pc = "collide" => (gameOver' <=> HeadHitsBody)

\* C4: checkCollision returns true iff the head's position equals the position of
\* some segment with index >= 1; it returns false for a freshly initialised
\* snake, so no game ends by collision before the first move.
C4_CheckCollision == [](C4_Iff /\ C4_Fresh) /\ [][C4_Step]_vars

\* the game was ended by the head running into a body segment
C4_Witness ==
    /\ pc = "loop"
    /\ gameOver
    /\ key \notin QuitKeys
    /\ snake.body[1] = snake.body[snake.size]
    /\ checkCollision(snake)

(* ---- C5 ---- *)
Controller == IF gameOver THEN "GameOver" ELSE IF gamePaused THEN "Paused" ELSE "Running"

C5_Step ==
    /\ (Controller = "Running" /\ Controller' = "Paused") => (pc = "input" /\ key' \in PauseKeys)
    /\ (Controller = "Paused" /\ Controller' = "Running") => (pc = "input" /\ key' \in PauseKeys)
    /\ (Controller = "Running" /\ Controller' = "GameOver") =>
          \/ pc = "input" /\ key' \in QuitKeys
          \/ pc = "collide" /\ HeadHitsBody
    /\ (Controller = "Paused" /\ Controller' = "GameOver") => (pc = "input" /\ key' \in QuitKeys)
    /\ Controller = "GameOver" =>
          /\ pc = "loop" /\ pc' = "exit"
          /\ UNCHANGED <<snake, food, gameOver, gamePaused, key, moves, eaten>>

C6_Step ==
    /\ (pc = "input" /\ gamePaused') => (snake' = snake /\ food' = food /\ pc' = "loop")
    /\ (pc = "input" /\ gamePaused /\ key' \notin (PauseKeys \cup QuitKeys)) =>
          UNCHANGED <<snake, food, gamePaused, gameOver>>

\* C6: in a tick after whose input handling the game is paused, the snake's
\* segments, size and direction and the food are unchanged; a movement input read
\* while paused does not change the direction, only pause-toggle and quit act.
C6_PausedTickFrame == [][C6_Step]_vars

\* a movement key was read while the game was paused
C6_Witness ==
    /\ pc = "loop"
    /\ gamePaused
    /\ ~gameOver
    /\ key \in {"w", "KEY_UP"}
    /\ snake.direction = RIGHT
    /\ moves >= 1

(* ---- C7 ---- *)
C7_Step ==
    MoveStep =>
        /\ snake'.size = snake.size
        /\ Len(snake'.body) = snake.size
        /\ \A i \in 2..snake.size : snake'.body[i] = snake.body[i - 1]

\* C7: moveSnake leaves size unchanged and shifts the body: segment i takes the
\* position segment i-1 had before the call, for every i with 1 <= i < size (C
\* indices); the head takes the new position and the old tail entry is dropped.
C7_ShiftBody == [][C7_Step]_vars

\* a snake that has grown made a turn and moved: all its segments are distinct
C7_Witness ==
    /\ pc = "eat"
    /\ snake.size = INITIAL_SIZE + 1
    /\ Cardinality({snake.body[i] : i \in 1..snake.size}) = snake.size
    /\ snake.body[1].x # snake.body[3].x
    /\ snake.body[1].y # snake.body[3].y

(* ---- C8 ---- *)
Remap(c, limit) == IF c <= 0 THEN limit - 2 ELSE IF c >= limit - 1 THEN 1 ELSE c

DeltaX(d) == IF d = RIGHT THEN 1 ELSE IF d = LEFT THEN -1 ELSE 0

DeltaY(d) == IF d = DOWN THEN 1 ELSE IF d = UP THEN -1 ELSE 0

C8_Step ==
    MoveStep =>
        /\ snake'.body[1].x = Remap(snake.body[1].x + DeltaX(snake.direction), WIDTH)
        /\ snake'.body[1].y = Remap(snake.body[1].y + DeltaY(snake.direction), HEIGHT)
        /\ snake.direction \in {UP, DOWN} => snake'.body[1].x = snake.body[1].x
        /\ snake.direction \in {LEFT, RIGHT} => snake'.body[1].y = snake.body[1].y
        /\ (snake.body[1].x = 1 /\ snake.direction = LEFT) =>
              snake'.body[1] = Point(28, snake.body[1].y)

\* C8: the new head is the old head moved one cell in the current direction and
\* then remapped per axis (x <= 0 to WIDTH-2, x >= WIDTH-1 to 1, y <= 0 to
\* HEIGHT-2, y >= HEIGHT-1 to 1), the other coordinate unchanged; a head at
\* (1, y) moving Left ends at (28, y).
C8_NewHead == [][C8_Step]_vars

\* the head has just gone from column 1 to column 28 on the same row
C8_Witness ==
    /\ pc = "eat"
    /\ lastDir = LEFT
    /\ snake.body[1].x = 28
    /\ snake.body[2].x = 1
    /\ snake.body[1].y = snake.body[2].y

(* ---- C9 ---- *)
C9_Step ==
    (EatStep /\ snake.body[1] = food) =>
        /\ snake'.size = snake.size + 1
        /\ Len(snake'.body) = snake.size + 1
        /\ snake'.body[snake.size + 1] = snake.body[snake.size]
        /\ \A i \in 1..snake.size : snake'.body[i] = snake.body[i]
        /\ snake'.direction = snake.direction

\* C9: when the snake grows, size increases by exactly 1, the new last segment
\* has the position of the previous last segment, and the segments that existed
\* before and the direction are unchanged.
C9_Grow == [][C9_Step]_vars

\* the snake has grown for the second time
C9_Witness ==
    /\ pc = "collide"
    /\ eaten = 2
    /\ snake.size = INITIAL_SIZE + 2
    /\ snake.body[snake.size] = snake.body[snake.size - 1]
    /\ snake.body[snake.size - 1] # snake.body[snake.size - 2]

(* ---- C10 ---- *)
\* size and food change only in the step in which the head lies on the food
C10_OnlyWhenEating ==
    (snake'.size # snake.size \/ food' # food) => (EatStep /\ snake.body[1] = food)

C10_SizeGrows == (EatStep /\ snake.body[1] = food) => snake'.size = snake.size + 1

C10_NewFoodAlways == (EatStep /\ snake.body[1] = food) => food' # food

C10_NewFoodIfRoom ==
    (EatStep /\ snake.body[1] = food) =>
        IF SomeInteriorCellFree' THEN food' # food ELSE food' = food

\* C10 as stated: in a Running tick the size changes iff the head after moveSnake
\* lies on the food; then size becomes size+1 and a new food position is
\* selected in the same tick; otherwise the tick changes neither size nor food.
C10_EatingTick_Original == [][C10_OnlyWhenEating /\ C10_SizeGrows /\ C10_NewFoodAlways]_vars

\* C10 amended: as above, but a new food position is selected only if some
\* interior cell is free of snake segments after the growth; on a completely
\* filled interior the size still becomes size+1 and the food keeps its position.
C10_EatingTick == [][C10_OnlyWhenEating /\ C10_SizeGrows /\ C10_NewFoodIfRoom]_vars

\* food was eaten on a board with room: the snake is longer and the food has moved
C10_Witness ==
    /\ pc = "collide"
    /\ eaten = 1
    /\ snake.size = INITIAL_SIZE + 1
    /\ food # snake.body[1]
    /\ food.y # snake.body[1].y

(* ---- C11 ---- *)
C11_Step ==
    (EatStep /\ snake.body[1] = food /\ ~SomeInteriorCellFree') =>
        /\ food' = food
        /\ gameOver' = gameOver
        /\ gamePaused' = gamePaused
        /\ shown' = shown

\* the tick of a placement that found no empty cell ends without game over
C11_LoopGoesOn ==
    (pc = "collide" /\ ~gameOver /\ ~SomeInteriorCellFree /\ snake.body[1] = food) =>
        (~gameOver' /\ pc' = "loop")

\* C11: placeFood called while snake segments occupy every interior cell is a
\* silent no-op: the food keeps its previous position, the placement raises no
\* error and no terminal state, and the game loop continues.
C11_FullBoardNoOp == [][C11_Step /\ C11_LoopGoesOn]_vars

\* the next tick has begun after a placement on a completely filled interior
C11_Witness ==
    /\ pc = "input"
    /\ placeFailed
    /\ snake.size = InteriorCount + 1
    /\ food = snake.body[1]
    /\ ~gameOver

(* ---- C12 ---- *)
\* the lowercase key of an uppercase letter key
Lowercase(k) ==
    IF k = "W" THEN "w" ELSE IF k = "S" THEN "s" ELSE IF k = "A" THEN "a"
    ELSE IF k = "D" THEN "d" ELSE IF k = "P" THEN "p" ELSE IF k = "Q" THEN "q" ELSE k

UppercaseKeys == {"W", "S", "A", "D", "P", "Q"}

C12_Step ==
    (pc = "input" /\ key' \in UppercaseKeys) =>
        /\ snake'.direction = NewDirection(Lowercase(key'), snake.direction, gamePaused)
        /\ gamePaused' = NewPaused(Lowercase(key'), gamePaused)
        /\ gameOver' = NewGameOver(Lowercase(key'), gameOver)

\* C12: for each of the letter keys W, S, A, D, P and Q the uppercase and the
\* lowercase key produce the same logical event, hence the same state change in
\* handleInput.
C12_CaseInsensitive == [][C12_Step]_vars

(* ---- C13 ---- *)
C13_Handed == pc = "exit" => (shown = <<snake.size - INITIAL_SIZE>> /\ shown[1] = eaten)

C13_Counts == (snake.size - INITIAL_SIZE = eaten) /\ (snake.size - INITIAL_SIZE >= 0)

C13_NeverDecreases ==
    /\ snake'.size - INITIAL_SIZE >= snake.size - INITIAL_SIZE
    /\ (pc # "exit" /\ pc' # "exit") => shown' = shown

\* C13: the score handed to endGame is the snake's size minus INITIAL_SIZE; it
\* equals the number of ticks in which food was eaten, is never negative and
\* never decreases during a run.
C13_Score == [](C13_Handed /\ C13_Counts) /\ [][C13_NeverDecreases]_vars

\* a game that ended by self-collision after two meals has handed over score 2
C13_Witness ==
    /\ pc = "exit"
    /\ shown = <<2>>
    /\ eaten = 2
    /\ key \notin QuitKeys

(* ---- C14 ---- *)
\* the case labels of the switch in handleInput
HandledKeys == {"p", "P", "w", "KEY_UP", "d", "KEY_RIGHT", "s", "KEY_DOWN", "a", "KEY_LEFT", "q", "Q"}

\* no key, a key without a case label, or a request for the opposite direction
IgnoredInput(k) ==
    \/ k = "ERR"
    \/ k \notin HandledKeys
    \/ (Requested(k) \in Directions /\ Requested(k) = Opposite(snake.direction))

C14_Step ==
    (pc = "input" /\ IgnoredInput(key')) =>
        /\ snake'.direction = snake.direction
        /\ gamePaused' = gamePaused
        /\ gameOver' = gameOver
        /\ UNCHANGED <<snake, food, moves, eaten, shown>>
        /\ pc' = (IF gamePaused THEN "loop" ELSE "move")

\* C14: absence of input, an unrecognised key and a rejected opposite-direction
\* request are no-ops in handleInput: direction, paused flag and game-over flag
\* are unchanged and the tick goes on as a tick without input does.
C14_IgnoredInput == [][C14_Step]_vars

\* an unrecognised key was read in a running game and the tick goes on to move
C14_Witness ==
    /\ pc = "move"
    /\ key = "x"
    /\ moves >= 1
    /\ ~gamePaused
    /\ ~gameOver

(* ---- C15 ---- *)
C15_Start ==
    moves = 0 =>
        /\ snake.size = 3
        /\ snake.body = <<Point(15, 10), Point(14, 10), Point(13, 10)>>
        /\ pc = "loop" => snake.direction = RIGHT

C15_FirstMove ==
    (pc = "eat" /\ moves = 1 /\ lastDir = RIGHT) =>
        /\ snake.size = 3
        /\ snake.body = <<Point(16, 10), Point(15, 10), Point(14, 10)>>

\* C15: the game starts with size 3 on the 30x20 board as a horizontal line on
\* row 10, head at the centre and rightmost ((15,10),(14,10),(13,10)), direction
\* Right; after one moveSnake in that direction and no growth the size is still 3
\* and the segments are (16,10),(15,10),(14,10).
C15_InitialSnake == [](WIDTH = 30 /\ HEIGHT = 20 /\ C15_Start /\ C15_FirstMove)

\* the first moveSnake call has moved the snake to the right, off the food
C15_Witness ==
    /\ pc = "collide"
    /\ moves = 1
    /\ lastDir = RIGHT
    /\ eaten = 0
    /\ snake.size = 3
    /\ snake.body[1] = Point(16, 10)

(* ---- C16 ---- *)
C16_QuitTick ==
    (pc = "input" /\ key' \in QuitKeys) =>
        /\ gameOver'
        /\ pc' = "loop"
        /\ UNCHANGED <<snake, food, moves, eaten, gamePaused>>

C16_LoopExits ==
    (pc = "loop" /\ gameOver) =>
        /\ pc' = "exit"
        /\ UNCHANGED <<snake, food, moves, eaten>>

\* C16: a tick in which a quit input is read, in a running or a paused game, ends
\* the game in that tick without a call of moveSnake, eatFood or placeFood: the
\* snake's segments, size and direction and the food are unchanged, and the loop
\* exits at its next condition check.
C16_QuitEndsTick == [][C16_QuitTick /\ C16_LoopExits]_vars

\* a running game that had eaten once was ended by a quit input
C16_Witness ==
    /\ pc = "loop"
    /\ gameOver
    /\ ~gamePaused
    /\ key \in QuitKeys
    /\ eaten = 1
    /\ ~HeadHitsBody

(* ---- C17 ---- *)
\* from the top of the loop (drawGame) until moveSnake is called
BeforeMove == pc \in {"loop", "input", "move"}

C17_FoodOffSnake == (BeforeMove /\ ~placeFailed) => FoodOnFreeInteriorCell

\* the head gets onto the food only by the moveSnake call of the same tick
C17_ReachedByMoving ==
    (EatStep /\ snake.body[1] = food /\ ~placeFailed) => (moves >= 1 /\ tailBefore # Point(0, 0))

\* C17: at the start of every tick, in every reachable state in which each
\* placeFood call so far found an empty interior cell, the food lies on an
\* interior cell that coincides with no snake segment, so the head reaches the
\* food only by moving onto it.
C17_FoodInvariant == []C17_FoodOffSnake /\ [][C17_ReachedByMoving]_vars

\* a tick starts after the second meal, the food lies off the snake
C17_Witness ==
    /\ pc = "input"
    /\ eaten = 2
    /\ ~placeFailed
    /\ ~gameOver
    /\ \A i \in 1..snake.size : snake.body[i] # food

(* ---- C18 ---- *)
\* two segments share a cell only if they are the last two
DistinctExceptTail ==
    \A i \in 1..snake.size : \A j \in (i + 1)..snake.size :
        snake.body[i] = snake.body[j] => (i = snake.size - 1 /\ j = snake.size)

C18_AtTickBoundaries == (BeforeMove /\ ~gameOver) => DistinctExceptTail

\* within a tick another coincidence is the head on a body segment
C18_OnlyTheHead == ((pc \in {"eat", "collide"}) /\ ~DistinctExceptTail) => HeadHitsBody

C18_EndsTheGame == (pc = "collide" /\ ~DistinctExceptTail) => gameOver'

\* C18: in every reachable state in which the game is not over, the snake's
\* segments are pairwise distinct except that the last two may coincide (the
\* duplicated tail after growth); any other coincidence is the head on a body
\* segment in the tick whose collision check ends the game.
C18_SegmentsDistinct == [](C18_AtTickBoundaries /\ C18_OnlyTheHead) /\ [][C18_EndsTheGame]_vars

\* the head has run into the body and the collision check is about to end the game
C18_Witness ==
    /\ pc = "collide"
    /\ ~gameOver
    /\ ~DistinctExceptTail
    /\ snake.body[snake.size] # snake.body[snake.size - 1]

(* ---- C19 ---- *)
C19_SizeBounds ==
    /\ snake.size >= INITIAL_SIZE
    /\ snake.size <= (WIDTH - 2) * (HEIGHT - 2) + 1
    /\ Len(snake.body) = snake.size

\* eatFood writes body[size] inside the array of WIDTH * HEIGHT entries
C19_WriteInBounds == (EatStep /\ snake.body[1] = food) => snake.size < WIDTH * HEIGHT

\* placeFood fills no more than WIDTH * HEIGHT entries of emptyX and emptyY
C19_EmptyInBounds == (EatStep /\ snake.body[1] = food) => Len(EmptyCells(snake')) <= WIDTH * HEIGHT

\* C19: in every reachable state the snake's size is at least INITIAL_SIZE and at
\* most (WIDTH-2)*(HEIGHT-2)+1, so the write to body[size] in eatFood stays inside
\* the body array and placeFood never overruns emptyX and emptyY.
C19_SizeWithinArray == []C19_SizeBounds /\ [][C19_WriteInBounds /\ C19_EmptyInBounds]_vars

\* the snake has reached the largest size, one more than the number of interior
\* cells, and has moved on
C19_Witness ==
    /\ snake.size = (WIDTH - 2) * (HEIGHT - 2) + 1
    /\ pc = "collide"
    /\ food = snake.body[2]
    /\ HeadHitsBody

(* ---- C20 ---- *)
\* the moveSnake call of this tick has put the head on the cell the last segment
\* occupied before the call
HeadOnTailBefore == snake.body[1] = tailBefore

\* the last two segments coincided before that call: after the shift the last
\* segment still lies on the cell the last segment occupied before
TailWasDuplicated == snake.body[snake.size] = tailBefore

C20_Step ==
    (pc = "collide" /\ HeadOnTailBefore) =>
        /\ ~TailWasDuplicated => (~gameOver' /\ ~HeadHitsBody)
        /\ TailWasDuplicated => gameOver'

LastTwoCoincide == snake.body[snake.size] = snake.body[snake.size - 1]

\* the last two segments coincide before a move exactly if the tick before grew
\* the snake: growth makes them coincide, every move separates them again
C20_DuplicateMeansGrowth ==
    /\ (pc = "move" /\ moves = 0) => ~LastTwoCoincide
    /\ MoveStep => ~LastTwoCoincide'
    /\ EatStep => (LastTwoCoincide' <=> snake.body[1] = food)
    /\ (pc \in {"collide", "loop", "input"} /\ pc' # "exit") => (LastTwoCoincide' <=> LastTwoCoincide)

\* C20: the body is shifted before the collision check, so a head that moves into
\* the cell the tail occupied before the move does not end the game when the last
\* two segments were distinct before the move (no growth in the tick before: the
\* tail leaves that cell in the same move), and ends the game when the last two
\* segments coincided before the move (growth in the tick before).
C20_TailChase == [][C20_Step /\ C20_DuplicateMeansGrowth]_vars

\* the head has taken the cell the tail left in the same move and the game goes on
C20_Witness ==
    /\ pc = "loop"
    /\ ~gameOver
    /\ HeadOnTailBefore
    /\ ~TailWasDuplicated
    /\ snake.size = INITIAL_SIZE + 1
    /\ moves >= 1

====
